---- MODULE Spec2Model ----
(***************************************************************************)
(* Model of src/main.rs (DebuggerVarilator): the readelf header scan, the   *)
(* log range filter, the addr2line resolver, the source line fetcher and    *)
(* the annotating loop of run().                                            *)
(*                                                                          *)
(* Text is a sequence of one-character strings.  A u32 is a record          *)
(* [hi, lo] of its two 16-bit halves, so that u32::MAX, the mask            *)
(* 0xFFFF0000 and the 32-bit sum start_addr + size keep their width.        *)
(***************************************************************************)
EXTENDS Integers, Sequences, FiniteSets, TLC

VARIABLES
    pc,              \* position of the modelled call or of run()
    overflow_checks, \* the build: TRUE panics on integer overflow, FALSE wraps
    dump,            \* what `readelf -l` produced
    start_addr,      \* run(): start_addr (u32)
    size,            \* run(): size (u32)
    log_file,        \* the input log file: whether it opens, and its lines
    log_content,     \* run(): the retained lines
    fs,              \* source files by name
    src_info,        \* argument of get_src_line
    ret,             \* returned String of get_src_line
    count,           \* run(): lines of log_content processed so far
    last_src_line,   \* run(): last_src_line
    src_files,       \* the text get_src_file returned for each processed line
    output,          \* self.output, as the sequence of pushed pieces
    output_file      \* the output file: "absent" or the pieces written

vars == <<pc, overflow_checks, dump, start_addr, size, log_file, log_content,
          fs, src_info, ret, count, last_src_line, src_files, output, output_file>>

----------------------------------------------------------------------------
(* Bounds of the model *)

MaxDumpLines == 4
MaxLogLines == 3
MaxFileLines == 3
MaxRunLines == 4

----------------------------------------------------------------------------
(* Characters and text *)

HexLower == <<"0","1","2","3","4","5","6","7","8","9","a","b","c","d","e","f">>
HexUpper == <<"0","1","2","3","4","5","6","7","8","9","A","B","C","D","E","F">>

\* [\da-fA-F]
IsHex(c) == \E i \in 1..16 : HexLower[i] = c \/ HexUpper[i] = c

DigitVal(c) == (CHOOSE i \in 1..16 : HexLower[i] = c \/ HexUpper[i] = c) - 1

IsDecimal(c) == \E i \in 1..10 : HexLower[i] = c

Letters == {"a","b","c","d","e","f","g","h","i","j","k","l","m","n","o","p","q",
            "r","s","t","u","v","w","x","y","z",
            "A","B","C","D","E","F","G","H","I","J","K","L","M","N","O","P","Q",
            "R","S","T","U","V","W","X","Y","Z"}

\* \w
IsWord(c) == c \in Letters \/ IsDecimal(c) \/ c = "_"

\* \s, and the separator of split_whitespace
IsSpace(c) == c = " " \/ c = "\t"

\* str::split(sep) as the sequence of pieces (always at least one piece)
RECURSIVE SplitOn(_, _, _, _)
SplitOn(s, sep, i, cur) ==
    IF i > Len(s) THEN <<cur>>
    ELSE IF s[i] = sep THEN <<cur>> \o SplitOn(s, sep, i + 1, <<>>)
    ELSE SplitOn(s, sep, i + 1, Append(cur, s[i]))

Split(s, sep) == SplitOn(s, sep, 1, <<>>)

\* str::split_whitespace: the non-empty runs of non-space characters
RECURSIVE SplitWs(_, _, _)
SplitWs(s, i, cur) ==
    IF i > Len(s) THEN (IF cur = <<>> THEN <<>> ELSE <<cur>>)
    ELSE IF IsSpace(s[i])
         THEN (IF cur = <<>> THEN <<>> ELSE <<cur>>) \o SplitWs(s, i + 1, <<>>)
         ELSE SplitWs(s, i + 1, Append(cur, s[i]))

split_whitespace(s) == SplitWs(s, 1, <<>>)

\* str::trim_end_matches('\n')
RECURSIVE trim_end_matches(_)
trim_end_matches(s) ==
    IF s # <<>> /\ s[Len(s)] = "\n" THEN trim_end_matches(SubSeq(s, 1, Len(s) - 1))
    ELSE s

----------------------------------------------------------------------------
(* u32 *)

Half == 65536

U32(h, l) == [hi |-> h, lo |-> l]

U32_MAX == U32(Half - 1, Half - 1)

U32_ZERO == U32(0, 0)

Lt(a, b) == a.hi < b.hi \/ (a.hi = b.hi /\ a.lo < b.lo)

\* x & 0xFFFF0000
MaskHigh(x) == U32(x.hi, 0)

\* a + b in u32: the wrapped sum and whether it overflowed
AddU32(a, b) ==
    LET l == a.lo + b.lo
        h == a.hi + b.hi + (l \div Half)
    IN  [val |-> U32(h % Half, l % Half), overflow |-> h >= Half]

\* u32::from_str_radix(s, 16) for a string of hex digits: Err past 32 bits
RECURSIVE FromHex(_, _, _)
FromHex(s, i, acc) ==
    IF i > Len(s) THEN [ok |-> TRUE, val |-> acc]
    ELSE IF acc.hi >= 4096 THEN [ok |-> FALSE, val |-> U32_ZERO]
    ELSE FromHex(s, i + 1,
                 U32(acc.hi * 16 + (acc.lo \div 4096),
                     (acc.lo % 4096) * 16 + DigitVal(s[i])))

from_str_radix(s) == FromHex(s, 1, U32_ZERO)

----------------------------------------------------------------------------
(* Option values *)

None == [some |-> FALSE, val |-> <<>>]

Some(v) == [some |-> TRUE, val |-> v]

----------------------------------------------------------------------------
(* get_elf_addr_and_size: the scan of the `readelf -l` text *)

\* A line of the dump, by which of the two patterns it matches: entry_point_re
\* captures addr; load_re captures addr (its third 0x field) and size (its
\* fourth); any other line matches neither.
EntryLine(a) == [kind |-> "entry", addr |-> a, size |-> <<>>]

LoadLine(a, n) == [kind |-> "load", addr |-> a, size |-> n]

OtherLine == [kind |-> "other", addr |-> <<>>, size |-> <<>>]

\* The test of a LOAD line (== binds looser than &)
LoadMatchesBothMasked(addr, start) == MaskHigh(addr) = MaskHigh(start)

LoadMatches(addr, start) == addr = MaskHigh(start)

\* One iteration of the loop over res.lines(); st.brk is set by `break`
ScanLine(st, line) ==
    IF st.brk \/ st.panic THEN st
    ELSE IF line.kind = "entry" THEN
        LET a == from_str_radix(line.addr)
        IN  IF a.ok THEN [st EXCEPT !.start_addr = a.val]
            ELSE [st EXCEPT !.panic = TRUE]
    ELSE IF line.kind = "load" THEN
        LET a == from_str_radix(line.addr)
            n == from_str_radix(line.size)
        IN  IF ~a.ok \/ ~n.ok THEN [st EXCEPT !.panic = TRUE]
            ELSE [st EXCEPT !.size = n.val, !.brk = LoadMatches(a.val, st.start_addr)]
    ELSE st

RECURSIVE ScanLines(_, _, _)
ScanLines(lines, i, st) ==
    IF i > Len(lines) THEN st
    ELSE ScanLines(lines, i + 1, ScanLine(st, lines[i]))

\* Result<(u32, u32), String>, or a panic of an unwrap()
get_elf_addr_and_size(d) ==
    IF d.status # "ok"
    THEN [ok |-> FALSE, panic |-> FALSE, start_addr |-> U32_ZERO, size |-> U32_ZERO]
    ELSE LET st == ScanLines(d.lines, 1,
                     [start_addr |-> U32_MAX, size |-> U32_ZERO,
                      brk |-> FALSE, panic |-> FALSE])
         IN  [ok |-> TRUE, panic |-> st.panic,
              start_addr |-> st.start_addr, size |-> st.size]

----------------------------------------------------------------------------
(* get_file_content: the range filter *)

AllHex(t) == t # <<>> /\ \A i \in 1..Len(t) : IsHex(t[i])

\* address_re is not anchored: it matches at the leftmost place where a run of
\* hex digits ends a token, the next three tokens are hex digits only, and the
\* token after them starts with a word character.  Group 1 is the third of
\* these five tokens.
MatchAt(toks, i) ==
    /\ i + 4 <= Len(toks)
    /\ IsHex(toks[i][Len(toks[i])])
    /\ AllHex(toks[i + 1]) /\ AllHex(toks[i + 2]) /\ AllHex(toks[i + 3])
    /\ IsWord(toks[i + 4][1])

address_re_captures(l) ==
    LET toks == split_whitespace(l)
        at == {i \in 1..Len(toks) : MatchAt(toks, i)}
    IN  IF at = {} THEN None
        ELSE Some(toks[(CHOOSE i \in at : \A j \in at : i <= j) + 2])

\* The test of a parsed address against the bounds
InRange(start, end, addr) == Lt(start, addr) /\ Lt(addr, end)

\* One iteration of the loop over the lines of the log file
FilterLine(st, line, start, end) ==
    IF st.panic \/ ~line.ok THEN st
    ELSE LET cap == address_re_captures(line.text)
         IN  IF ~cap.some THEN st
             ELSE LET a == from_str_radix(cap.val)
                  IN  IF ~a.ok THEN [st EXCEPT !.panic = TRUE]
                      ELSE IF InRange(start, end, a.val)
                           THEN [st EXCEPT !.res = Append(st.res, line.text)]
                           ELSE st

RECURSIVE FilterLines(_, _, _, _, _)
FilterLines(lines, i, st, start, end) ==
    IF i > Len(lines) THEN st
    ELSE FilterLines(lines, i + 1, FilterLine(st, lines[i], start, end), start, end)

\* Ok(res) also when the file does not open; res as its sequence of lines
get_file_content(file, start, end) ==
    IF ~file.opens THEN [panic |-> FALSE, res |-> <<>>]
    ELSE FilterLines(file.lines, 1, [panic |-> FALSE, res |-> <<>>], start, end)

----------------------------------------------------------------------------
(* get_src_file and get_src_line *)

DEFAULT_ERROR == <<" "," "," "," ","N","o","t"," ","f","o","u","n","d","\n">>

Indent == <<" "," "," "," ">>

\* The operand handed to addr2line: split_whitespace().skip(2).next()
address_operand(disassembly_line) ==
    LET toks == split_whitespace(disassembly_line)
    IN  IF Len(toks) >= 3 THEN Some(toks[3]) ELSE None

\* res is what running addr2line gave: it may fail to start (expect panics),
\* or its standard output may not be UTF-8 (expect panics).
get_src_file(disassembly_line, res) ==
    IF ~address_operand(disassembly_line).some
    THEN [panic |-> FALSE, val |-> DEFAULT_ERROR]
    ELSE IF res.status # "ok" THEN [panic |-> TRUE, val |-> <<>>]
    ELSE [panic |-> FALSE, val |-> res.stdout]

\* str::parse::<usize> of a short string: an optional +, then decimal digits
RECURSIVE DecimalValue(_, _, _)
DecimalValue(s, i, acc) ==
    IF i > Len(s) THEN acc ELSE DecimalValue(s, i + 1, acc * 10 + DigitVal(s[i]))

parse_usize(s) ==
    LET digits == IF s # <<>> /\ s[1] = "+" THEN SubSeq(s, 2, Len(s)) ELSE s
    IN  IF digits # <<>> /\ \A i \in 1..Len(digits) : IsDecimal(digits[i])
        THEN [ok |-> TRUE, val |-> DecimalValue(digits, 1, 0)]
        ELSE [ok |-> FALSE, val |-> 0]

\* File::open
file_opens(files, filename) == filename \in DOMAIN files /\ files[filename].exists

\* lines().skip(n) followed by the for loop that returns the first Ok line:
\* the index of that line, or 0 when the iterator ends first
FirstOkFrom(lines, from) ==
    LET ok == {k \in from..Len(lines) : lines[k].ok}
    IN  IF ok = {} THEN 0 ELSE CHOOSE k \in ok : \A j \in ok : k <= j

\* checks is the build's overflow-checks setting, which decides `number - 1`
\* for number = 0: a panic, or a wrap to usize::MAX (every line is skipped)
get_src_line(info, files, checks) ==
    LET it == Split(info, ":")
    IN  IF Len(it) < 2 THEN [panic |-> FALSE, val |-> DEFAULT_ERROR]
        ELSE LET filename == it[1]
                 line_number == parse_usize(trim_end_matches(it[2]))
             IN  IF ~line_number.ok \/ ~file_opens(files, filename)
                 THEN [panic |-> FALSE, val |-> DEFAULT_ERROR]
                 ELSE IF line_number.val = 0
                 THEN [panic |-> checks, val |-> DEFAULT_ERROR]
                 ELSE LET lines == files[filename].lines
                          k == FirstOkFrom(lines, line_number.val)
                      IN  IF k = 0 THEN [panic |-> FALSE, val |-> DEFAULT_ERROR]
                          ELSE [panic |-> FALSE,
                                val |-> Indent \o lines[k].text \o <<"\n">>]

----------------------------------------------------------------------------
(* run: the pieces pushed to self.output *)

Piece(k, t) == [kind |-> k, text |-> t]

\* if last_src_line != src_file
NeedHeaderAlways(last, src_file) == TRUE

NeedHeader(last, src_file) == last # src_file

\* push_str(&src_file); push_str(&c_src_line), after the "\n" already pushed
push_header(out, src_file, c_src_line) ==
    out \o <<Piece("loc", src_file), Piece("src", c_src_line)>>

\* push_str(line); push_str("\n")
push_line_only(out, line) == Append(out, Piece("line", line))

push_line(out, line) == out \o <<Piece("line", line), Piece("nl", <<"\n">>)>>

----------------------------------------------------------------------------
(* Inputs *)

SeqsUpTo(S, n) == UNION {[1..k -> S] : k \in 0..n}

RECURSIVE Join(_)
Join(toks) ==
    IF Len(toks) = 0 THEN <<>>
    ELSE IF Len(toks) = 1 THEN toks[1]
    ELSE toks[1] \o <<" ">> \o Join(Tail(toks))

\* readelf -l
H10080 == <<"1","0","0","8","0">>
H20004 == <<"2","0","0","0","4">>
H10000 == <<"1","0","0","0","0">>
H10010 == <<"1","0","0","1","0">>
H20000 == <<"2","0","0","0","0">>
H8000 == <<"8","0","0","0">>
H100 == <<"1","0","0">>
H200 == <<"2","0","0">>
H40 == <<"4","0">>

DumpLines ==
    {EntryLine(H10080), EntryLine(H20004),
     LoadLine(H10000, H100), LoadLine(H10010, H200), LoadLine(H20000, H40),
     OtherLine}

NoDump == [status |-> "none", lines |-> <<>>]

Dumps ==
    {[status |-> "ok", lines |-> l] : l \in SeqsUpTo(DumpLines, MaxDumpLines)}
    \cup {[status |-> "exec_failed", lines |-> <<>>],
          [status |-> "not_utf8", lines |-> <<>>]}

\* the log file
T0 == <<"0">>
Nop == <<"n","o","p">>
H8050 == <<"8","0","5","0">>
H8100 == <<"8","1","0","0">>
Hffff8000 == <<"f","f","f","f","8","0","0","0">>
H123456789 == <<"1","2","3","4","5","6","7","8","9">>

LineIn == Join(<<T0, T0, H8050, T0, Nop>>)
LineAtStart == Join(<<T0, T0, H8000, T0, Nop>>)
LineAtEnd == Join(<<T0, T0, H8100, T0, Nop>>)
LineHigh == Join(<<T0, T0, Hffff8000, T0, Nop>>)
LineShort == Join(<<T0, T0, H8050>>)
LinePrefixed == Join(<<<<"x">>, T0, T0, H8050, T0, Nop>>)
LineStamped == Join(<<<<"t","0">>, T0, H8050, T0, Nop>>)
LineWide == Join(<<T0, T0, H123456789, T0, Nop>>)

OkLine(t) == [ok |-> TRUE, text |-> t]

BadLine == [ok |-> FALSE, text |-> <<>>]

LogLines ==
    {OkLine(LineIn), OkLine(LineAtStart), OkLine(LineAtEnd), OkLine(LineHigh),
     OkLine(LineShort), OkLine(LinePrefixed), OkLine(LineStamped),
     OkLine(LineWide), BadLine}

NoLog == [opens |-> FALSE, lines |-> <<>>]

LogFiles ==
    {[opens |-> TRUE, lines |-> l] : l \in SeqsUpTo(LogLines, MaxLogLines)}
    \cup {NoLog}

Ranges ==
    {<<U32(0, 32768), U32(0, 256)>>,
     <<U32(0, 32768), U32_ZERO>>,
     <<U32(65535, 0), U32(1, 0)>>,
     <<U32_MAX, U32_ZERO>>}

\* the source files
FileF == <<"f">>

SrcLines == {OkLine(<<"a">>), OkLine(<<"b">>), BadLine}

SrcFiles ==
    {[exists |-> TRUE, lines |-> l] : l \in SeqsUpTo(SrcLines, MaxFileLines)}
    \cup {[exists |-> FALSE, lines |-> <<>>]}

FileSystems == {[n \in {FileF} |-> f] : f \in SrcFiles}

\* addr2line standard output
LocF1 == <<"f",":","1","\n">>
LocF2 == <<"f",":","2","\n">>
LocF3 == <<"f",":","3","\n">>
LocF0 == <<"f",":","0","\n">>
LocUnknown == <<"?","?",":","0","\n">>

SrcInfos ==
    {<<>>, <<"f","\n">>, LocF1, LocF2, LocF3, LocF0, LocUnknown,
     <<"f",":","x","\n">>, <<"f",":","\n">>, <<"g",":","1","\n">>,
     <<"f",":","1",":","2","\n">>, <<"f",":","+","1","\n">>,
     <<"f",":","1">>, <<"f",":","1"," ","(","d",")","\n">>}

----------------------------------------------------------------------------
(* The calls *)

NoFile == [written |-> FALSE, content |-> <<>>]

\* run: let (start_addr, size) = self.get_elf_addr_and_size().expect(..)
GetElfAddrAndSize ==
    /\ pc = "get_elf_addr_and_size"
    /\ LET r == get_elf_addr_and_size(dump)
       IN  /\ pc' = IF ~r.ok \/ r.panic THEN "panicked" ELSE "get_file_content"
           /\ start_addr' = r.start_addr
           /\ size' = r.size
    /\ UNCHANGED <<overflow_checks, dump, log_file, log_content, fs, src_info,
                   ret, count, last_src_line, src_files, output, output_file>>

\* run: let log_content = self.get_file_content(start_addr, start_addr + size)
GetFileContent ==
    /\ pc = "get_file_content"
    /\ LET end == AddU32(start_addr, size)
           r == get_file_content(log_file, start_addr, end.val)
       IN  IF (end.overflow /\ overflow_checks) \/ r.panic
           THEN pc' = "panicked" /\ log_content' = <<>>
           ELSE pc' = "annotate" /\ log_content' = r.res
    /\ UNCHANGED <<overflow_checks, dump, start_addr, size, log_file, fs,
                   src_info, ret, count, last_src_line, src_files, output,
                   output_file>>

\* a call of get_src_line on its own
GetSrcLine ==
    /\ pc = "get_src_line"
    /\ LET r == get_src_line(src_info, fs, overflow_checks)
       IN  /\ pc' = IF r.panic THEN "panicked" ELSE "returned"
           /\ ret' = r.val
    /\ UNCHANGED <<overflow_checks, dump, start_addr, size, log_file,
                   log_content, fs, src_info, count, last_src_line, src_files,
                   output, output_file>>

\* addr2line as run by get_src_file
Addr2lineResults ==
    {[status |-> "ok", stdout |-> t] : t \in {<<>>, LocF1, LocF2, LocF0, LocUnknown}}
    \cup {[status |-> "exec_failed", stdout |-> <<>>]}

Blank == Piece("blank", <<"\n">>)

\* run: one iteration of the loop over log_content.lines()
AnnotateLine ==
    /\ pc = "annotate"
    /\ count < Len(log_content)
    /\ \E res \in Addr2lineResults :
        LET line == log_content[count + 1]
            src_file == get_src_file(line, res)
            header == NeedHeader(last_src_line, src_file.val)
            c_src_line == get_src_line(src_file.val, fs, overflow_checks)
        IN  IF src_file.panic
            THEN /\ pc' = "panicked"
                 /\ UNCHANGED <<count, last_src_line, src_files, output>>
            ELSE IF header /\ c_src_line.panic
            THEN /\ pc' = "panicked"
                 /\ output' = Append(output, Blank)
                 /\ UNCHANGED <<count, last_src_line, src_files>>
            ELSE /\ pc' = "annotate"
                 /\ output' =
                        push_line(IF header
                                  THEN push_header(Append(output, Blank),
                                                   src_file.val, c_src_line.val)
                                  ELSE output,
                                  line)
                 /\ last_src_line' = src_file.val
                 /\ src_files' = Append(src_files, src_file.val)
                 /\ count' = count + 1
    /\ UNCHANGED <<overflow_checks, dump, start_addr, size, log_file,
                   log_content, fs, src_info, ret, output_file>>

\* run: fs::write(&self.config.output_file, &self.output)?
WriteOutput ==
    /\ pc = "annotate"
    /\ count = Len(log_content)
    /\ \E written \in BOOLEAN :
        IF written
        THEN pc' = "done" /\ output_file' = [written |-> TRUE, content |-> output]
        ELSE pc' = "failed" /\ output_file' = output_file
    /\ UNCHANGED <<overflow_checks, dump, start_addr, size, log_file,
                   log_content, fs, src_info, ret, count, last_src_line,
                   src_files, output>>

----------------------------------------------------------------------------
(* run() as a whole *)

RunDumps ==
    {[status |-> "ok", lines |-> <<EntryLine(H8000), LoadLine(H8000, H100)>>],
     [status |-> "ok", lines |-> <<LoadLine(H8000, H100)>>],
     [status |-> "exec_failed", lines |-> <<>>]}

RunLogFiles ==
    {[opens |-> TRUE, lines |-> l] :
        l \in SeqsUpTo({OkLine(LineIn), OkLine(LineAtStart)}, MaxRunLines)}
    \cup {NoLog}

RunFs == [n \in {FileF} |->
            [exists |-> TRUE, lines |-> <<OkLine(<<"a">>), OkLine(<<"b">>)>>]]

Init ==
    /\ pc = "get_elf_addr_and_size"
    /\ overflow_checks \in BOOLEAN
    /\ dump \in RunDumps
    /\ start_addr = U32_ZERO
    /\ size = U32_ZERO
    /\ log_file \in RunLogFiles
    /\ log_content = <<>>
    /\ fs = RunFs
    /\ src_info = <<>>
    /\ ret = <<>>
    /\ count = 0
    /\ last_src_line = <<>>
    /\ src_files = <<>>
    /\ output = <<>>
    /\ output_file = NoFile

Next == GetElfAddrAndSize \/ GetFileContent \/ AnnotateLine \/ WriteOutput

Spec == Init /\ [][Next]_vars

----------------------------------------------------------------------------
(* get_elf_addr_and_size over the header dumps *)

InitElf ==
    /\ pc = "get_elf_addr_and_size"
    /\ overflow_checks = FALSE
    /\ dump \in Dumps
    /\ start_addr = U32_ZERO
    /\ size = U32_ZERO
    /\ log_file = NoLog
    /\ log_content = <<>>
    /\ fs = <<>>
    /\ src_info = <<>>
    /\ ret = <<>>
    /\ count = 0
    /\ last_src_line = <<>>
    /\ src_files = <<>>
    /\ output = <<>>
    /\ output_file = NoFile

NextElf == GetElfAddrAndSize

SpecElf == InitElf /\ [][NextElf]_vars

(* get_file_content over the ranges and the log files *)

InitFilter ==
    /\ pc = "get_file_content"
    /\ overflow_checks \in BOOLEAN
    /\ dump = NoDump
    /\ \E r \in Ranges : start_addr = r[1] /\ size = r[2]
    /\ log_file \in LogFiles
    /\ log_content = <<>>
    /\ fs = <<>>
    /\ src_info = <<>>
    /\ ret = <<>>
    /\ count = 0
    /\ last_src_line = <<>>
    /\ src_files = <<>>
    /\ output = <<>>
    /\ output_file = NoFile

NextFilter == GetFileContent

SpecFilter == InitFilter /\ [][NextFilter]_vars

(* get_src_line over the resolver texts and the source files *)

InitFetch ==
    /\ pc = "get_src_line"
    /\ overflow_checks \in BOOLEAN
    /\ dump = NoDump
    /\ start_addr = U32_ZERO
    /\ size = U32_ZERO
    /\ log_file = NoLog
    /\ log_content = <<>>
    /\ fs \in FileSystems
    /\ src_info \in SrcInfos
    /\ ret = <<>>
    /\ count = 0
    /\ last_src_line = <<>>
    /\ src_files = <<>>
    /\ output = <<>>
    /\ output_file = NoFile

NextFetch == GetSrcLine

SpecFetch == InitFetch /\ [][NextFetch]_vars

----------------------------------------------------------------------------
(* Properties of get_file_content (SpecFilter) *)

\* start < a < start + size, the sum taken in the integers
InOpenRange(start, n, a) ==
    LET sum == AddU32(start, n)
    IN  Lt(start, a) /\ (sum.overflow \/ Lt(a, sum.val))

RecordAddr(l) == from_str_radix(address_re_captures(l).val)

IsRecord(line) ==
    line.ok /\ address_re_captures(line.text).some /\ RecordAddr(line.text).ok

OnlyRecords32 ==
    \A i \in 1..Len(log_file.lines) :
        (log_file.lines[i].ok /\ address_re_captures(log_file.lines[i].text).some)
            => RecordAddr(log_file.lines[i].text).ok

ExpectedContent ==
    LET Keep(line) ==
            IsRecord(line) /\ InOpenRange(start_addr, size, RecordAddr(line.text).val)
        kept == SelectSeq(log_file.lines, Keep)
    IN  [i \in 1..Len(kept) |-> kept[i].text]

\* C1: once the log of a file that opens has been filtered, the retained lines
\* are, in input order, exactly the records whose address a satisfies
\* start < a < start + size (both strict), for every range (start, size)
C1_RangeFilter ==
    (pc # "get_file_content" /\ log_file.opens /\ OnlyRecords32)
        => (pc = "annotate" /\ log_content = ExpectedContent)

\* C9: every retained line has, as its third whitespace-delimited token (the
\* operand get_src_file gives to the symbolizer), the very field the filter
\* captured and range-checked
C9_FilterResolverAgree ==
    pc = "annotate" =>
        \A i \in 1..Len(log_content) :
            address_operand(log_content[i]) = address_re_captures(log_content[i])

----------------------------------------------------------------------------
(* Properties of get_elf_addr_and_size (SpecElf) *)

\* an entry-point line first, then LOAD lines (and lines of neither kind)
EntryThenLoads ==
    /\ dump.status = "ok"
    /\ Len(dump.lines) >= 1
    /\ dump.lines[1].kind = "entry"
    /\ \A i \in 2..Len(dump.lines) : dump.lines[i].kind # "entry"

EntryAddr == from_str_radix(dump.lines[1].addr).val

LoadAddr(i) == from_str_radix(dump.lines[i].addr).val

LoadSize(i) == from_str_radix(dump.lines[i].size).val

\* LOAD lines whose base, masked, equals the entry point, masked
MaskedEqual ==
    {i \in 2..Len(dump.lines) :
        dump.lines[i].kind = "load" /\ MaskHigh(LoadAddr(i)) = MaskHigh(EntryAddr)}

\* LOAD lines whose base equals the entry point, masked
BaseEqual ==
    {i \in 2..Len(dump.lines) :
        dump.lines[i].kind = "load" /\ LoadAddr(i) = MaskHigh(EntryAddr)}

First(S) == CHOOSE i \in S : \A j \in S : i <= j

\* C4 as stated: the returned size is the size of the first LOAD line whose
\* masked base equals the masked entry point, whatever precedes or follows it
C4_FirstMaskedLoad ==
    (pc = "get_file_content" /\ EntryThenLoads /\ MaskedEqual # {})
        => size = LoadSize(First(MaskedEqual))

\* C4 amended: the returned size is the size of the first LOAD line whose base
\* (unmasked) equals the entry point masked with 0xFFFF0000, when there is one,
\* whatever LOAD lines precede or follow it
C4_FirstLoadAtMaskedEntry ==
    (pc = "get_file_content" /\ EntryThenLoads /\ BaseEqual # {})
        => size = LoadSize(First(BaseEqual))

\* a LOAD line that does not qualify before the first that does, and a further
\* LOAD line after it, each of another size
C4_Witness ==
    /\ pc = "get_file_content" /\ EntryThenLoads /\ BaseEqual # {}
    /\ LET j == First(BaseEqual)
       IN  /\ j > 2 /\ j < Len(dump.lines)
           /\ dump.lines[j - 1].kind = "load" /\ LoadSize(j - 1) # LoadSize(j)
           /\ dump.lines[j + 1].kind = "load" /\ LoadSize(j + 1) # LoadSize(j)
           /\ size = LoadSize(j)

NoEntryLine ==
    dump.status = "ok" /\ \A i \in 1..Len(dump.lines) : dump.lines[i].kind # "entry"

NoLoadQualifies ==
    /\ dump.status = "ok"
    /\ \A i \in 1..Len(dump.lines) :
        dump.lines[i].kind = "load"
            => MaskHigh(from_str_radix(dump.lines[i].addr).val) # MaskHigh(start_addr)

\* C5: with no entry-point line the returned start is u32::MAX; with no LOAD
\* line satisfying the mask equality the returned size is 0; and in both cases
\* start + size does not overflow
C5_NoQualifyingSegment ==
    pc = "get_file_content" =>
        /\ NoEntryLine => start_addr = U32_MAX
        /\ (NoEntryLine \/ NoLoadQualifies)
              => (size = U32_ZERO /\ ~AddU32(start_addr, size).overflow)

----------------------------------------------------------------------------
(* Properties of get_src_line (SpecFetch) *)

InfoParts == Split(src_info, ":")

InfoNumber == parse_usize(trim_end_matches(InfoParts[2]))

\* no colon, or no positive line number, or no such file, or too few lines
FetchMustFail ==
    \/ Len(InfoParts) < 2
    \/ ~InfoNumber.ok
    \/ InfoNumber.val = 0
    \/ ~file_opens(fs, InfoParts[1])
    \/ Len(fs[InfoParts[1]].lines) < InfoNumber.val

\* C6: in each of the failing cases get_src_line returns the sentinel and the
\* run goes on
C6_FetchNeverAborts ==
    (pc # "get_src_line" /\ FetchMustFail)
        => (pc = "returned" /\ ret = DEFAULT_ERROR)

\* C7: get_src_line returns the sentinel or the indented text of the line
\* asked for, never the text of another line
C7_NeverWrongLine ==
    pc = "returned" =>
        \/ ret = DEFAULT_ERROR
        \/ /\ ~FetchMustFail
           /\ fs[InfoParts[1]].lines[InfoNumber.val].ok
           /\ ret = Indent \o fs[InfoParts[1]].lines[InfoNumber.val].text \o <<"\n">>

----------------------------------------------------------------------------
(* Properties of run (Spec) *)

LinePieces == {q \in 1..Len(output) : output[q].kind = "line"}

\* where the i-th log line sits in the output
LinePos(i) ==
    CHOOSE p \in LinePieces : Cardinality({q \in LinePieces : q <= p}) = i

HeaderBefore(i) ==
    LET p == LinePos(i)
    IN  /\ p > 3
        /\ output[p - 3] = Blank
        /\ output[p - 2] = Piece("loc", src_files[i])
        /\ output[p - 1].kind = "src"

PreviousText(i) == IF i = 1 THEN <<>> ELSE src_files[i - 1]

\* C2: a header block stands before line i iff the resolver text of line i
\* differs from that of line i-1 (for line 1, from the empty initial text)
C2_HeaderIffTextChanged ==
    /\ Cardinality(LinePieces) = count
    /\ \A i \in 1..count : HeaderBefore(i) <=> src_files[i] # PreviousText(i)

\* texts A, A, B, A: headers before lines 1, 3 and 4 and none before line 2
C2_Witness ==
    /\ pc = "done" /\ count = 4
    /\ src_files = <<LocF1, LocF1, LocF2, LocF1>>
    /\ HeaderBefore(1) /\ ~HeaderBefore(2) /\ HeaderBefore(3) /\ HeaderBefore(4)

Newline == Piece("nl", <<"\n">>)

AllSameLocation ==
    /\ count >= 1
    /\ src_files[1] # <<>>
    /\ \A i \in 1..count : src_files[i] = src_files[1]

C8_LogOpenFailureAborts ==
    ~log_file.opens => (pc # "done" /\ ~output_file.written)

\* C10: once a line has been processed, the output begins with a header block
C10_FirstLineHasHeader ==
    count >= 1 =>
        /\ output[1] = Blank
        /\ output[2].kind = "loc"
        /\ output[3].kind = "src"

====
